---- MODULE Spec2Model ----
(***************************************************************************)
(* Model of src/rome.py: the module-level list ROMAN_NUMERALS and the      *)
(* function add(augend, addend), which adds two Roman numerals over the    *)
(* symbols I, V, X by string rewriting.                                    *)
(*                                                                         *)
(* A Python str is modelled as a sequence of one-character strings.  A     *)
(* Python value is a record [kind, text]: kind "str" with its characters,  *)
(* kind "int" or "NoneType" for a value that is not a str, and kind        *)
(* "unbound" for a local name of add that has not been assigned yet.       *)
(* Every statement of add is one action of a caller; callers interleave    *)
(* statement by statement.                                                 *)
(***************************************************************************)
EXTENDS Integers, Sequences, FiniteSets, TLC

VARIABLES ROMAN_NUMERALS, pc, augend, addend, simple_augend, simple_addend,
          simple_sum, ordered_sum, canonicalised_sum, outcome, increments

vars == <<ROMAN_NUMERALS, pc, augend, addend, simple_augend, simple_addend,
          simple_sum, ordered_sum, canonicalised_sum, outcome, increments>>

locals == <<simple_augend, simple_addend, simple_sum, ordered_sum,
            canonicalised_sum>>

(***************************************************************************)
(* Bounds of the model.                                                    *)
(***************************************************************************)
\* Largest value of an input numeral and of a sum (the range of I, V, X).
MaxValue == 39
\* Longest argument string of the calls on arbitrary strings.
MaxLen == 3

(***************************************************************************)
(* Python values.                                                          *)
(***************************************************************************)
Str(s) == [kind |-> "str", text |-> s]
Unbound == [kind |-> "unbound", text |-> <<>>]
NonStrings == {[kind |-> "int", text |-> <<>>], [kind |-> "NoneType", text |-> <<>>]}

\* isinstance(v, str)
IsStr(v) == v.kind = "str"

Range(s) == {s[i] : i \in 1..Len(s)}

\* c * n for a one-character string c
Rep(c, n) == [i \in 1..n |-> c]

(***************************************************************************)
(* str.replace(old, new): every non-overlapping occurrence of old, found   *)
(* left to right, is replaced; the replacement text is not scanned again.  *)
(***************************************************************************)
RECURSIVE Replace(_, _, _)
Replace(s, old, new) ==
    IF Len(s) < Len(old) THEN s
    ELSE IF SubSeq(s, 1, Len(old)) = old
         THEN new \o Replace(SubSeq(s, Len(old) + 1, Len(s)), old, new)
         ELSE <<Head(s)>> \o Replace(Tail(s), old, new)

\* Simplify with ten 'I' written for "IX".
SimplifyMiscounted(s) ==
    Replace(Replace(s, <<"I", "X">>, Rep("I", 10)), <<"I", "V">>, Rep("I", 4))

\* Simplify with the two replacements in the other order.
SimplifyIVFirst(s) ==
    Replace(Replace(s, <<"I", "V">>, Rep("I", 4)), <<"I", "X">>, Rep("I", 9))

\* x.replace('IX', 'IIIIIIIII').replace('IV', 'IIII')
Simplify(s) ==
    Replace(Replace(s, <<"I", "X">>, Rep("I", 9)), <<"I", "V">>, Rep("I", 4))

\* ord(c): sorted() compares characters by code point.
Ord(c) == CASE c = "A" -> 65
            [] c = "I" -> 73
            [] c = "V" -> 86
            [] c = "X" -> 88

RECURSIVE InsertDesc(_, _)
InsertDesc(c, s) ==
    IF s = <<>> THEN <<c>>
    ELSE IF Ord(c) >= Ord(Head(s)) THEN <<c>> \o s
         ELSE <<Head(s)>> \o InsertDesc(c, Tail(s))

\* SortedReverse without the sort.
Unsorted(s) == s

\* ''.join(sorted(s, reverse=True))
RECURSIVE SortedReverse(_)
SortedReverse(s) ==
    IF s = <<>> THEN <<>> ELSE InsertDesc(Head(s), SortedReverse(Tail(s)))

\* Canonicalise without its last replacement, 'VIV' by 'IX'.
CanonicaliseNoVIV(s) ==
    LET r1 == Replace(s, Rep("I", 10), <<"X">>)
        r2 == Replace(r1, Rep("I", 9), <<"I", "X">>)
        r3 == Replace(r2, Rep("I", 5), <<"V">>)
        r4 == Replace(r3, <<"V", "V">>, <<"X">>)
    IN  Replace(r4, Rep("I", 4), <<"I", "V">>)

\* Canonicalise with 'VV' replaced before 'IIIII'.
CanonicaliseVVFirst(s) ==
    LET r1 == Replace(s, Rep("I", 10), <<"X">>)
        r2 == Replace(r1, Rep("I", 9), <<"I", "X">>)
        r3 == Replace(r2, <<"V", "V">>, <<"X">>)
        r4 == Replace(r3, Rep("I", 5), <<"V">>)
        r5 == Replace(r4, Rep("I", 4), <<"I", "V">>)
    IN  Replace(r5, <<"V", "I", "V">>, <<"I", "X">>)

\* The chain of six replacements of line 16.
Canonicalise(s) ==
    LET r1 == Replace(s, Rep("I", 10), <<"X">>)
        r2 == Replace(r1, Rep("I", 9), <<"I", "X">>)
        r3 == Replace(r2, Rep("I", 5), <<"V">>)
        r4 == Replace(r3, <<"V", "V">>, <<"X">>)
        r5 == Replace(r4, Rep("I", 4), <<"I", "V">>)
    IN  Replace(r5, <<"V", "I", "V">>, <<"I", "X">>)

\* if canonicalised_sum == 'VX': canonicalised_sum = 'XV'
FixVX(s) == IF s = <<"V", "X">> THEN <<"X", "V">> ELSE s

\* if canonicalised_sum == 'VIX': canonicalised_sum = 'XIV'
FixVIX(s) == IF s = <<"V", "I", "X">> THEN <<"X", "I", "V">> ELSE s

\* HasInvalidChar that looks at the first character only.
HasInvalidFirstChar(s, numerals) == Len(s) > 0 /\ s[1] \notin Range(numerals)

\* for char in simple_sum: if char not in ROMAN_NUMERALS: raise ValueError
HasInvalidChar(s, numerals) == \E i \in 1..Len(s) : s[i] \notin Range(numerals)

(***************************************************************************)
(* The outcome of a whole call add(a, b) on two Python values, as the      *)
(* composition of its statements with the list ['I', 'V', 'X'].            *)
(***************************************************************************)
Raised == [kind |-> "ValueError", text |-> <<>>]

add(a, b) ==
    IF ~IsStr(a) \/ ~IsStr(b) THEN Raised
    ELSE LET sum == Simplify(a.text) \o Simplify(b.text)
         IN  IF HasInvalidChar(sum, <<"I", "V", "X">>) THEN Raised
             ELSE Str(FixVIX(FixVX(Canonicalise(SortedReverse(sum)))))

(***************************************************************************)
(* The statements of add, one action each, for caller p.                   *)
(***************************************************************************)
Callers == DOMAIN pc

\* TypeCheck with "and" for "or".
TypeCheckAnd(p) ==
    /\ pc[p] = "L3"
    /\ IF ~IsStr(augend[p]) /\ ~IsStr(addend[p])
       THEN /\ pc' = [pc EXCEPT ![p] = "raised"]
            /\ outcome' = [outcome EXCEPT ![p] = Raised]
       ELSE /\ pc' = [pc EXCEPT ![p] = "L6"]
            /\ UNCHANGED outcome
    /\ UNCHANGED <<ROMAN_NUMERALS, augend, addend, locals, increments>>

\* Lines 3-4.
TypeCheck(p) ==
    /\ pc[p] = "L3"
    /\ IF ~IsStr(augend[p]) \/ ~IsStr(addend[p])
       THEN /\ pc' = [pc EXCEPT ![p] = "raised"]
            /\ outcome' = [outcome EXCEPT ![p] = Raised]
       ELSE /\ pc' = [pc EXCEPT ![p] = "L6"]
            /\ UNCHANGED outcome
    /\ UNCHANGED <<ROMAN_NUMERALS, augend, addend, locals, increments>>

\* Line 6.
ExpandAugend(p) ==
    /\ pc[p] = "L6"
    /\ simple_augend' = [simple_augend EXCEPT ![p] = Str(Simplify(augend[p].text))]
    /\ pc' = [pc EXCEPT ![p] = "L7"]
    /\ UNCHANGED <<ROMAN_NUMERALS, augend, addend, simple_addend, simple_sum,
                   ordered_sum, canonicalised_sum, outcome, increments>>

\* Line 7.
ExpandAddend(p) ==
    /\ pc[p] = "L7"
    /\ simple_addend' = [simple_addend EXCEPT ![p] = Str(Simplify(addend[p].text))]
    /\ pc' = [pc EXCEPT ![p] = "L8"]
    /\ UNCHANGED <<ROMAN_NUMERALS, augend, addend, simple_augend, simple_sum,
                   ordered_sum, canonicalised_sum, outcome, increments>>

\* Line 8.
Concatenate(p) ==
    /\ pc[p] = "L8"
    /\ simple_sum' = [simple_sum EXCEPT
                        ![p] = Str(simple_augend[p].text \o simple_addend[p].text)]
    /\ pc' = [pc EXCEPT ![p] = "L10"]
    /\ UNCHANGED <<ROMAN_NUMERALS, augend, addend, simple_augend, simple_addend,
                   ordered_sum, canonicalised_sum, outcome, increments>>

\* Validate that also drops from ROMAN_NUMERALS the symbols it did not meet.
ValidateNarrowing(p) ==
    /\ pc[p] = "L10"
    /\ IF HasInvalidChar(simple_sum[p].text, ROMAN_NUMERALS)
       THEN /\ pc' = [pc EXCEPT ![p] = "raised"]
            /\ outcome' = [outcome EXCEPT ![p] = Raised]
       ELSE /\ pc' = [pc EXCEPT ![p] = "L14"]
            /\ UNCHANGED outcome
    /\ LET Met(c) == c \in Range(simple_sum[p].text)
       IN  ROMAN_NUMERALS' = SelectSeq(ROMAN_NUMERALS, Met)
    /\ UNCHANGED <<augend, addend, locals, increments>>

\* Lines 10-12.
Validate(p) ==
    /\ pc[p] = "L10"
    /\ IF HasInvalidChar(simple_sum[p].text, ROMAN_NUMERALS)
       THEN /\ pc' = [pc EXCEPT ![p] = "raised"]
            /\ outcome' = [outcome EXCEPT ![p] = Raised]
       ELSE /\ pc' = [pc EXCEPT ![p] = "L14"]
            /\ UNCHANGED outcome
    /\ UNCHANGED <<ROMAN_NUMERALS, augend, addend, locals, increments>>

\* Line 14.
Order(p) ==
    /\ pc[p] = "L14"
    /\ ordered_sum' = [ordered_sum EXCEPT ![p] = Str(SortedReverse(simple_sum[p].text))]
    /\ pc' = [pc EXCEPT ![p] = "L16"]
    /\ UNCHANGED <<ROMAN_NUMERALS, augend, addend, simple_augend, simple_addend,
                   simple_sum, canonicalised_sum, outcome, increments>>

\* Line 16.
Collapse(p) ==
    /\ pc[p] = "L16"
    /\ canonicalised_sum' = [canonicalised_sum EXCEPT
                               ![p] = Str(Canonicalise(ordered_sum[p].text))]
    /\ pc' = [pc EXCEPT ![p] = "L17"]
    /\ UNCHANGED <<ROMAN_NUMERALS, augend, addend, simple_augend, simple_addend,
                   simple_sum, ordered_sum, outcome, increments>>

\* Lines 17-18.
CorrectVX(p) ==
    /\ pc[p] = "L17"
    /\ canonicalised_sum' = [canonicalised_sum EXCEPT
                               ![p] = Str(FixVX(canonicalised_sum[p].text))]
    /\ pc' = [pc EXCEPT ![p] = "L19"]
    /\ UNCHANGED <<ROMAN_NUMERALS, augend, addend, simple_augend, simple_addend,
                   simple_sum, ordered_sum, outcome, increments>>

\* Lines 19-20.
CorrectVIX(p) ==
    /\ pc[p] = "L19"
    /\ canonicalised_sum' = [canonicalised_sum EXCEPT
                               ![p] = Str(FixVIX(canonicalised_sum[p].text))]
    /\ pc' = [pc EXCEPT ![p] = "L21"]
    /\ UNCHANGED <<ROMAN_NUMERALS, augend, addend, simple_augend, simple_addend,
                   simple_sum, ordered_sum, outcome, increments>>

\* Line 21.
Return(p) ==
    /\ pc[p] = "L21"
    /\ outcome' = [outcome EXCEPT ![p] = canonicalised_sum[p]]
    /\ pc' = [pc EXCEPT ![p] = "returned"]
    /\ UNCHANGED <<ROMAN_NUMERALS, augend, addend, locals, increments>>

Next ==
    \/ \E p \in Callers : TypeCheck(p)
    \/ \E p \in Callers : ExpandAugend(p)
    \/ \E p \in Callers : ExpandAddend(p)
    \/ \E p \in Callers : Concatenate(p)
    \/ \E p \in Callers : Validate(p)
    \/ \E p \in Callers : Order(p)
    \/ \E p \in Callers : Collapse(p)
    \/ \E p \in Callers : CorrectVX(p)
    \/ \E p \in Callers : CorrectVIX(p)
    \/ \E p \in Callers : Return(p)

(***************************************************************************)
(* The state at the entry of the calls: callers cs, arguments a[p], b[p].  *)
(***************************************************************************)
Entry(cs, a, b) ==
    /\ ROMAN_NUMERALS = <<"I", "V", "X">>
    /\ pc = [p \in cs |-> "L3"]
    /\ augend = a
    /\ addend = b
    /\ simple_augend = [p \in cs |-> Unbound]
    /\ simple_addend = [p \in cs |-> Unbound]
    /\ simple_sum = [p \in cs |-> Unbound]
    /\ ordered_sum = [p \in cs |-> Unbound]
    /\ canonicalised_sum = [p \in cs |-> Unbound]
    /\ outcome = [p \in cs |-> Unbound]
    /\ increments = 0

(***************************************************************************)
(* The caller of the successor scenario: r = add(r, 'I'), again and again. *)
(***************************************************************************)
Increment(p) ==
    /\ pc[p] = "returned"
    /\ increments + 2 < MaxValue
    /\ increments' = increments + 1
    /\ augend' = [augend EXCEPT ![p] = outcome[p]]
    /\ pc' = [pc EXCEPT ![p] = "L3"]
    /\ simple_augend' = [simple_augend EXCEPT ![p] = Unbound]
    /\ simple_addend' = [simple_addend EXCEPT ![p] = Unbound]
    /\ simple_sum' = [simple_sum EXCEPT ![p] = Unbound]
    /\ ordered_sum' = [ordered_sum EXCEPT ![p] = Unbound]
    /\ canonicalised_sum' = [canonicalised_sum EXCEPT ![p] = Unbound]
    /\ outcome' = [outcome EXCEPT ![p] = Unbound]
    /\ UNCHANGED <<ROMAN_NUMERALS, addend>>

NextSucc ==
    \/ Next
    \/ \E p \in Callers : Increment(p)

(***************************************************************************)
(* Reference notions the properties are stated with: the standard Roman    *)
(* numeral of a number, the standard reading of a numeral (a smaller       *)
(* symbol before a larger one subtracts), and the plain sum of symbols.    *)
(***************************************************************************)
SymbolValue(c) == CASE c = "I" -> 1 [] c = "V" -> 5 [] c = "X" -> 10 [] OTHER -> 0

Units(n) == CASE n = 0 -> <<>>
              [] n = 1 -> <<"I">>
              [] n = 2 -> <<"I", "I">>
              [] n = 3 -> <<"I", "I", "I">>
              [] n = 4 -> <<"I", "V">>
              [] n = 5 -> <<"V">>
              [] n = 6 -> <<"V", "I">>
              [] n = 7 -> <<"V", "I", "I">>
              [] n = 8 -> <<"V", "I", "I", "I">>
              [] n = 9 -> <<"I", "X">>

Roman(n) == Rep("X", n \div 10) \o Units(n % 10)

RECURSIVE Value(_)
Value(s) ==
    IF s = <<>> THEN 0
    ELSE IF Len(s) > 1 /\ SymbolValue(s[1]) < SymbolValue(s[2])
         THEN Value(Tail(s)) - SymbolValue(s[1])
         ELSE Value(Tail(s)) + SymbolValue(s[1])

RECURSIVE SymbolSum(_)
SymbolSum(s) == IF s = <<>> THEN 0 ELSE SymbolValue(Head(s)) + SymbolSum(Tail(s))

\* s[i..] starts with t
StartsAt(s, i, t) == i + Len(t) - 1 <= Len(s) /\ SubSeq(s, i, i + Len(t) - 1) = t

Contains(s, t) == \E i \in 1..Len(s) : StartsAt(s, i, t)

\* Number of places where t occurs in s.
Count(s, t) == Cardinality({i \in 1..Len(s) : StartsAt(s, i, t)})

Terminated(p) == pc[p] \in {"returned", "raised"}

(***************************************************************************)
(* Specifications.                                                         *)
(***************************************************************************)
\* One call on two standard numerals of values in 1..MaxValue, sum <= MaxValue.
InitNumerals ==
    \E a, b \in 1..MaxValue :
        /\ a + b <= MaxValue
        /\ Entry({1}, [p \in {1} |-> Str(Roman(a))], [p \in {1} |-> Str(Roman(b))])

SpecNumerals == InitNumerals /\ [][Next]_vars

\* One call on two arbitrary values: strings up to MaxLen, or not strings.
Alphabet == {"I", "V", "X", "A"}
Strings == UNION {[1..k -> Alphabet] : k \in 0..MaxLen}
Values == {Str(s) : s \in Strings} \cup NonStrings

InitStrings ==
    \E a, b \in Values : Entry({1}, [p \in {1} |-> a], [p \in {1} |-> b])

SpecStrings == InitStrings /\ [][Next]_vars

\* Two concurrent calls.
ConcurrentValues ==
    {Str(<<"I", "V">>), Str(<<"V", "I">>), Str(<<"I", "X">>), Str(<<"A">>),
     [kind |-> "int", text |-> <<>>]}

InitConcurrent ==
    \E a, b \in [{1, 2} -> ConcurrentValues] : Entry({1, 2}, a, b)

SpecConcurrent == InitConcurrent /\ [][Next]_vars

\* r = 'I', then r = add(r, 'I') repeatedly.
InitSucc == Entry({1}, [p \in {1} |-> Str(<<"I">>)], [p \in {1} |-> Str(<<"I">>)])

SpecSucc == InitSucc /\ [][NextSucc]_vars

(***************************************************************************)
(* Properties.                                                             *)
(***************************************************************************)
IX == <<"I", "X">>
IV == <<"I", "V">>
IXV == <<"I", "X", "V">>

\* C1: for standard numerals a, b of values in 1..MaxValue with sum at most
\* MaxValue, the standard reading of add(a, b) is value(a) + value(b).
C1_SumValue ==
    \A p \in Callers :
        pc[p] = "returned" =>
            Value(outcome[p].text) = Value(augend[p].text) + Value(addend[p].text)

\* C2: for the same inputs, add(a, b) is exactly the standard numeral of
\* value(a) + value(b) (so no V stands before an X in it).
C2_CanonicalSum ==
    \A p \in Callers :
        pc[p] = "returned" =>
            outcome[p] = Str(Roman(Value(augend[p].text) + Value(addend[p].text)))

\* C3: add(a, b) and add(b, a) have the same outcome, the same string or
\* the same error, for all arguments.
C3_Commutative ==
    \A p \in Callers : Terminated(p) => outcome[p] = add(addend[p], augend[p])

C3_Witness ==
    /\ pc[1] = "returned"
    /\ augend[1] = Str(<<"X">>)
    /\ addend[1] = Str(IV)
    /\ outcome[1] = Str(<<"X", "I", "V">>)

\* C4: starting from r = "I", after n replacements of r by add(r, "I") r is
\* the standard numeral of n + 1, up to the numeral of MaxValue; no call fails.
C4_Successor ==
    \A p \in Callers :
        /\ augend[p] = Str(Roman(increments + 1))
        /\ pc[p] # "raised"
        /\ pc[p] = "returned" => outcome[p] = Str(Roman(increments + 2))

C4_Witness ==
    /\ increments = 8
    /\ pc[1] = "returned"
    /\ augend[1] = Str(IX)
    /\ outcome[1] = Str(<<"X">>)

\* C5: on two strings add raises exactly when one of them has a character
\* outside {I, V, X}, and then no result exists; otherwise it passes the
\* validation and what it returns is a string.
InvalidArg(v) == \E i \in 1..Len(v.text) : v.text[i] \notin {"I", "V", "X"}

C5_ErrorIffInvalidChar ==
    \A p \in Callers :
        (IsStr(augend[p]) /\ IsStr(addend[p])) =>
            /\ pc[p] = "raised" =>
                  /\ InvalidArg(augend[p]) \/ InvalidArg(addend[p])
                  /\ outcome[p] = Raised
                  /\ ordered_sum[p] = Unbound
                  /\ canonicalised_sum[p] = Unbound
            /\ pc[p] \in {"L14", "L16", "L17", "L19", "L21", "returned"} =>
                  ~(InvalidArg(augend[p]) \/ InvalidArg(addend[p]))
            /\ pc[p] = "returned" => IsStr(outcome[p])

C5_Witness ==
    /\ pc[1] = "raised"
    /\ augend[1] = Str(IV)
    /\ addend[1] = Str(<<"X", "A">>)
    /\ outcome[1] = Raised

\* C6: when an argument is not a string, add raises at its first statement:
\* no local of the call is ever assigned, whatever the other argument is.
C6_NonStringRaisesFirst ==
    \A p \in Callers :
        (~IsStr(augend[p]) \/ ~IsStr(addend[p])) =>
            /\ pc[p] \in {"L3", "raised"}
            /\ pc[p] = "raised" => outcome[p] = Raised
            /\ simple_augend[p] = Unbound
            /\ simple_addend[p] = Unbound
            /\ simple_sum[p] = Unbound
            /\ ordered_sum[p] = Unbound
            /\ canonicalised_sum[p] = Unbound

C6_Witness ==
    /\ pc[1] = "raised"
    /\ augend[1] = Str(<<"A">>)
    /\ ~IsStr(addend[1])

\* C7: no step of a call changes ROMAN_NUMERALS, an argument, or anything of
\* another call, and a call that ends, however the calls interleave, ends
\* with the outcome that its own two arguments determine.
C7_NoSharedState ==
    [][ /\ ROMAN_NUMERALS' = ROMAN_NUMERALS
        /\ augend' = augend
        /\ addend' = addend
        /\ \A p \in Callers :
              pc'[p] \in {"returned", "raised"} =>
                  outcome'[p] = add(augend[p], addend[p])
        /\ \A p, q \in Callers :
              (p # q /\ pc'[p] # pc[p]) =>
                  /\ pc'[q] = pc[q]
                  /\ outcome'[q] = outcome[q]
                  /\ simple_augend'[q] = simple_augend[q]
                  /\ simple_addend'[q] = simple_addend[q]
                  /\ simple_sum'[q] = simple_sum[q]
                  /\ ordered_sum'[q] = ordered_sum[q]
                  /\ canonicalised_sum'[q] = canonicalised_sum[q]
      ]_vars

C7_Witness ==
    /\ pc[1] = "returned"
    /\ pc[2] = "L10"
    /\ augend[1] = augend[2]
    /\ addend[1] = addend[2]
    /\ outcome[1] = Str(<<"X", "I", "I", "I">>)

\* One pass over s that expands the "IX" and "IV" of s itself.
RECURSIVE ExpandOriginal(_)
ExpandOriginal(s) ==
    IF s = <<>> THEN <<>>
    ELSE IF StartsAt(s, 1, IX) THEN Rep("I", 9) \o ExpandOriginal(SubSeq(s, 3, Len(s)))
    ELSE IF StartsAt(s, 1, IV) THEN Rep("I", 4) \o ExpandOriginal(SubSeq(s, 3, Len(s)))
    ELSE <<Head(s)>> \o ExpandOriginal(Tail(s))

\* One pass over s that also expands the "IV" which an "IX" leaves before a 'V'.
RECURSIVE ExpandRescanned(_)
ExpandRescanned(s) ==
    IF s = <<>> THEN <<>>
    ELSE IF StartsAt(s, 1, IXV) THEN Rep("I", 12) \o ExpandRescanned(SubSeq(s, 4, Len(s)))
    ELSE IF StartsAt(s, 1, IX) THEN Rep("I", 9) \o ExpandRescanned(SubSeq(s, 3, Len(s)))
    ELSE IF StartsAt(s, 1, IV) THEN Rep("I", 4) \o ExpandRescanned(SubSeq(s, 3, Len(s)))
    ELSE <<Head(s)>> \o ExpandRescanned(Tail(s))

OriginalOnly(a, e) ==
    /\ e = ExpandOriginal(a)
    /\ Len(e) = Len(a) + 8 * Count(a, IX) + 3 * Count(a, IV)

\* C8 as stated: only the "IX" and "IV" of the input are expanded, and the
\* expansion is 8 characters longer per "IX" and 3 per "IV" of the input.
C8_OriginalOnly ==
    \A p \in Callers :
        /\ IsStr(simple_augend[p]) => OriginalOnly(augend[p].text, simple_augend[p].text)
        /\ IsStr(simple_addend[p]) => OriginalOnly(addend[p].text, simple_addend[p].text)

Rescanned(a, e) ==
    /\ e = ExpandRescanned(a)
    /\ Len(e) = Len(a) + 7 * Count(a, IX) + 2 * (Count(a, IV) + Count(a, IXV))
    /\ ~Contains(a, IXV) => e = ExpandOriginal(a)

\* C8 amended: the "IX" of the input are expanded, and then the "IV" of the
\* input and the "IV" that an expanded "IX" forms with a 'V' right after it;
\* the expansion is 7 characters longer per "IX" and 2 per expanded "IV".
C8_Rescanned ==
    \A p \in Callers :
        /\ IsStr(simple_augend[p]) => Rescanned(augend[p].text, simple_augend[p].text)
        /\ IsStr(simple_addend[p]) => Rescanned(addend[p].text, simple_addend[p].text)

C8_Witness ==
    /\ augend[1] = Str(IXV)
    /\ simple_augend[1] = Str(Rep("I", 12))
    /\ addend[1] = Str(<<"X", "I", "V">>)
    /\ simple_addend[1] = Str(<<"X", "I", "I", "I", "I">>)

NoSubtractivePair(s) ==
    \A i \in 1..(Len(s) - 1) : ~(s[i] = "I" /\ s[i + 1] \in {"V", "X"})

\* C9: the expansion of a standard numeral has no 'I' right before a 'V' or
\* an 'X' and its symbols sum to the numeral's value; the sorted merge of
\* two expansions has symbol sum value(a) + value(b).
C9_ExpansionAdditive ==
    \A p \in Callers :
        /\ IsStr(simple_augend[p]) =>
              /\ NoSubtractivePair(simple_augend[p].text)
              /\ SymbolSum(simple_augend[p].text) = Value(augend[p].text)
        /\ IsStr(simple_addend[p]) =>
              /\ NoSubtractivePair(simple_addend[p].text)
              /\ SymbolSum(simple_addend[p].text) = Value(addend[p].text)
        /\ IsStr(ordered_sum[p]) =>
              SymbolSum(ordered_sum[p].text)
                  = Value(augend[p].text) + Value(addend[p].text)

C9_Witness ==
    /\ augend[1] = Str(Roman(19))
    /\ addend[1] = Str(Roman(14))
    /\ simple_augend[1] = Str(<<"X">> \o Rep("I", 9))
    /\ simple_addend[1] = Str(<<"X">> \o Rep("I", 4))
    /\ ordered_sum[1] = Str(<<"X", "X">> \o Rep("I", 13))

RuleLeftSides ==
    {Rep("I", 10), Rep("I", 9), Rep("I", 5), <<"V", "V">>, Rep("I", 4), <<"V", "I", "V">>}

\* C10: the result for two standard numerals with sum at most MaxValue holds
\* no left-hand side of the six rules and is neither "VX" nor "VIX", so a
\* second pass of the rules and corrections leaves it as it is.
C10_FixedPoint ==
    \A p \in Callers :
        pc[p] = "returned" =>
            LET r == outcome[p].text
            IN  /\ \A l \in RuleLeftSides : ~Contains(r, l)
                /\ r # <<"V", "X">>
                /\ r # <<"V", "I", "X">>
                /\ FixVIX(FixVX(Canonicalise(r))) = r

C10_Witness ==
    /\ pc[1] = "returned"
    /\ augend[1] = Str(IX)
    /\ addend[1] = Str(IX)
    /\ ordered_sum[1] = Str(Rep("I", 18))
    /\ outcome[1] = Str(<<"X", "V", "I", "I", "I">>)

====
